---------------------------- MODULE Spec2Model ----------------------------
(***************************************************************************)
(* Model of the ResourceCreator controller                                 *)
(* (Assignment-3/creator/internal/controller/resourcecreator_controller.go)*)
(*                                                                         *)
(* The state is the resource store (parent records and child records), the *)
(* work queue, the pending child change events, and the position and       *)
(* locals of the one Reconcile call in flight.  Every other writer of the  *)
(* store (a user, another controller, another worker) is the external      *)
(* actor, whose writes interleave with the steps of Reconcile between its  *)
(* store calls.                                                            *)
(***************************************************************************)
EXTENDS Integers, Sequences, FiniteSets, TLC

VARIABLES
    parents,          \* store: request -> ResourceCreator record (present ones)
    children,         \* store: child key -> unstructured object (present ones)
    revision,         \* store: the last resourceVersion handed out
    queue,            \* work queue: the set of pending requests (coalesced)
    events,           \* child change events delivered by the watches, not yet routed
    pc,               \* position of the Reconcile call in flight
    req,              \* Reconcile: req.NamespacedName
    resourceCreator,  \* Reconcile: the fetched parent
    idx,              \* Reconcile: position in resourceCreator.Spec.Resources
    resource,         \* Reconcile: the unstructured child being applied
    ctx,              \* Reconcile: the context of the call, passed to every store call
    call,             \* history of the call in flight
    done,             \* history of the last call that returned
    prev,             \* history of the call that returned before it
    nExternal,        \* number of writes of the external actor so far
    nReconciles       \* number of Reconcile calls started so far

vars == <<parents, children, revision, queue, events, pc, req, resourceCreator,
          idx, resource, ctx, call, done, prev, nExternal, nReconciles>>

(***************************************************************************)
(* Bounds of the model.                                                    *)
(***************************************************************************)
MaxExternal == 1
MaxReconciles == 2

(***************************************************************************)
(* Values.                                                                 *)
(***************************************************************************)
Namespaces == {"ns1", "ns2"}
ParentNames == {"demo"}
Requests == [namespace : Namespaces, name : ParentNames]

EmptyMap == [x \in {} |-> 0]

GroupVersion == [group |-> "creator.m3.io", version |-> "v1"]
ParentKind == "ResourceCreator"

DeploymentGVK == [group |-> "apps", version |-> "v1", kind |-> "Deployment"]
ConfigMapGVK == [group |-> "", version |-> "v1", kind |-> "ConfigMap"]

gvkList ==
    { [group |-> "", version |-> "v1", kind |-> "Pod"],
      [group |-> "", version |-> "v1", kind |-> "Service"],
      [group |-> "apps", version |-> "v1", kind |-> "Deployment"],
      [group |-> "apps", version |-> "v1", kind |-> "StatefulSet"],
      [group |-> "apps", version |-> "v1", kind |-> "DaemonSet"],
      [group |-> "batch", version |-> "v1", kind |-> "Job"] }

\* schema.GroupVersion.String(): "group/version", or "version" for the core group.
APIVersionOf(gvk) ==
    IF gvk.group = "" THEN gvk.version ELSE gvk.group \o "/" \o gvk.version

(***************************************************************************)
(* Configuration payloads: the JSON text in ResourceSpec.Spec.Raw, by its  *)
(* syntax.  An object lists its members in text order (a key may repeat).  *)
(***************************************************************************)
RawReplicas2 == [type |-> "object", members |-> << <<"replicas", 2>> >>]
RawReplicas3 == [type |-> "object", members |-> << <<"replicas", 3>> >>]
RawRepeated == [type |-> "object", members |-> << <<"replicas", 2>>, <<"replicas", 3>> >>]
RawNull == [type |-> "null", members |-> <<>>]
RawArray == [type |-> "array", members |-> <<>>]
RawKeys ==
    [type |-> "object",
     members |-> << <<"apiVersion", "v9">>, <<"kind", "Other">>,
                    <<"metadata", [name |-> "x", namespace |-> "y"]>> >>]

RECURSIVE MembersToMap(_, _)
MembersToMap(members, m) ==
    IF members = <<>> THEN m
    ELSE MembersToMap(Tail(members),
                      (Head(members)[1] :> Head(members)[2]) @@ m)

\* Unmarshal, were every JSON value accepted and a non-object left the map empty.
UnmarshalLenient(raw) ==
    IF raw.type = "object"
    THEN [err |-> "nil", val |-> MembersToMap(raw.members, EmptyMap)]
    ELSE [err |-> "nil", val |-> EmptyMap]

\* json.Unmarshal(raw, &internalSpec) with internalSpec an empty map[string]any:
\* an object fills the map (the last occurrence of a key wins), null leaves the
\* map as it is, any other JSON value is an error.
Unmarshal(raw) ==
    CASE raw.type = "object" ->
            [err |-> "nil", val |-> MembersToMap(raw.members, EmptyMap)]
      [] raw.type = "null" -> [err |-> "nil", val |-> EmptyMap]
      [] OTHER -> [err |-> "UnmarshalTypeError", val |-> EmptyMap]

ResourceSpec(gvk, name, raw) ==
    [group |-> gvk.group, version |-> gvk.version, kind |-> gvk.kind,
     name |-> name, spec |-> raw]

\* The desired states a parent is given (Resources has at least one item).
DesiredStates ==
    { << ResourceSpec(DeploymentGVK, "web", RawReplicas2) >>,
      << ResourceSpec(DeploymentGVK, "web", RawReplicas3) >>,
      << ResourceSpec(DeploymentGVK, "web", RawReplicas2),
         ResourceSpec(ConfigMapGVK, "web", RawNull) >>,
      << ResourceSpec(DeploymentGVK, "web", RawReplicas2),
         ResourceSpec(ConfigMapGVK, "web", RawArray) >>,
      << ResourceSpec(ConfigMapGVK, "web", RawArray),
         ResourceSpec(DeploymentGVK, "web", RawRepeated) >> }

\* The parents the external actor writes: any desired state in ns1, one in ns2.
ParentWrites ==
    { <<[namespace |-> "ns1", name |-> "demo"], d>> : d \in DesiredStates }
    \cup { <<[namespace |-> "ns2", name |-> "demo"],
            << ResourceSpec(DeploymentGVK, "web", RawReplicas2) >> >> }

\* The zero value of ResourceCreatorStatus.
ZeroStatus == [resource |-> EmptyMap, status |-> "", message |-> ""]

(***************************************************************************)
(* unstructured.Unstructured: one untyped mapping holding apiVersion,      *)
(* kind, metadata and the content.                                         *)
(***************************************************************************)
SetUnstructuredContent(obj, content) == content

SetGroupVersionKind(obj, gvk) ==
    ("apiVersion" :> APIVersionOf(gvk)) @@ ("kind" :> gvk.kind) @@ obj

Metadata(obj) ==
    IF "metadata" \in DOMAIN obj THEN obj["metadata"] ELSE EmptyMap

SetNestedField(obj, field, value) ==
    ("metadata" :> ((field :> value) @@ Metadata(obj))) @@ obj

RemoveNestedField(obj, field) ==
    IF field \in DOMAIN Metadata(obj)
    THEN ("metadata" :>
            [f \in DOMAIN Metadata(obj) \ {field} |-> Metadata(obj)[f]]) @@ obj
    ELSE obj

SetName(obj, name) == SetNestedField(obj, "name", name)
SetNamespace(obj, namespace) == SetNestedField(obj, "namespace", namespace)
SetOwnerReferences(obj, refs) == SetNestedField(obj, "ownerReferences", refs)

\* Resource versions are the integers >= 1; 0 stands for "", which removes the field.
SetResourceVersion(obj, rv) ==
    IF rv = 0 THEN RemoveNestedField(obj, "resourceVersion")
    ELSE SetNestedField(obj, "resourceVersion", rv)

GetResourceVersion(obj) ==
    IF "resourceVersion" \in DOMAIN Metadata(obj)
    THEN Metadata(obj)["resourceVersion"] ELSE 0

GetNamespace(obj) ==
    IF "namespace" \in DOMAIN Metadata(obj) THEN Metadata(obj)["namespace"] ELSE ""

GetName(obj) ==
    IF "name" \in DOMAIN Metadata(obj) THEN Metadata(obj)["name"] ELSE ""

GetOwnerReferences(obj) ==
    IF "ownerReferences" \in DOMAIN Metadata(obj)
    THEN Metadata(obj)["ownerReferences"] ELSE <<>>

\* NewControllerRef, were the reference a plain owner reference.
NewOwnerRef(ownerName, gvk) ==
    [apiVersion |-> APIVersionOf(gvk), kind |-> gvk.kind, name |-> ownerName,
     controller |-> FALSE, blockOwnerDeletion |-> FALSE]

\* metav1.NewControllerRef(owner, gvk)
NewControllerRef(ownerName, gvk) ==
    [apiVersion |-> APIVersionOf(gvk), kind |-> gvk.kind, name |-> ownerName,
     controller |-> TRUE, blockOwnerDeletion |-> TRUE]

\* metav1.GetControllerOf(obj): the first reference with Controller set, or none.
RECURSIVE FirstController(_)
FirstController(refs) ==
    IF refs = <<>> THEN <<>>
    ELSE IF Head(refs).controller THEN <<Head(refs)>>
    ELSE FirstController(Tail(refs))

GetControllerOf(obj) == FirstController(GetOwnerReferences(obj))

(***************************************************************************)
(* The resource store, as the controller-runtime client shows it.  A child *)
(* is addressed by (apiVersion, kind, namespace, name).                    *)
(***************************************************************************)
KeyOf(obj) == <<obj["apiVersion"], obj["kind"], GetNamespace(obj), GetName(obj)>>

\* client.ObjectKey{Name, Namespace} together with the type of the object passed.
ObjectKey(obj, namespace, name) == <<obj["apiVersion"], obj["kind"], namespace, name>>

IgnoreNotFound(err) == IF err = "NotFound" THEN "nil" ELSE err

\* A context whose cancellation signal was not raised.
Background == [cancelled |-> FALSE]

\* A store call made with a cancelled context fails with the context's error and
\* leaves the store as it is; otherwise the store may fail on its own.
CallError(c, fault) ==
    IF c.cancelled THEN "Canceled" ELSE IF fault THEN "Unavailable" ELSE "nil"

\* Get(ctx, key, obj): on success obj is replaced by the stored record (and keeps
\* its own type identity); on error obj is left as it was.
ClientGet(c, store, key, obj, fault) ==
    IF CallError(c, fault) # "nil" THEN [err |-> CallError(c, fault), obj |-> obj]
    ELSE IF key \notin DOMAIN store THEN [err |-> "NotFound", obj |-> obj]
    ELSE [err |-> "nil",
          obj |-> ("apiVersion" :> obj["apiVersion"]) @@ ("kind" :> obj["kind"])
                    @@ store[key]]

\* Create(ctx, obj): rejected when obj carries a resource version or the key exists.
ClientCreate(c, store, rev, obj, fault) ==
    IF CallError(c, fault) # "nil"
    THEN [err |-> CallError(c, fault), store |-> store, rev |-> rev]
    ELSE IF GetResourceVersion(obj) # 0
    THEN [err |-> "BadRequest", store |-> store, rev |-> rev]
    ELSE IF KeyOf(obj) \in DOMAIN store
    THEN [err |-> "AlreadyExists", store |-> store, rev |-> rev]
    ELSE [err |-> "nil", rev |-> rev + 1,
          store |-> (KeyOf(obj) :> SetResourceVersion(obj, rev + 1)) @@ store]

\* Update(ctx, obj): rejected when the record is gone or obj carries a resource
\* version other than the stored one; writing the stored content back changes
\* nothing (no new resource version, no event).
ClientUpdate(c, store, rev, obj, fault) ==
    IF CallError(c, fault) # "nil"
    THEN [err |-> CallError(c, fault), store |-> store, rev |-> rev]
    ELSE IF KeyOf(obj) \notin DOMAIN store
    THEN [err |-> "NotFound", store |-> store, rev |-> rev]
    ELSE IF /\ GetResourceVersion(obj) # 0
            /\ GetResourceVersion(obj) # GetResourceVersion(store[KeyOf(obj)])
    THEN [err |-> "Conflict", store |-> store, rev |-> rev]
    ELSE IF SetResourceVersion(obj, 0) = SetResourceVersion(store[KeyOf(obj)], 0)
    THEN [err |-> "nil", store |-> store, rev |-> rev]
    ELSE [err |-> "nil", rev |-> rev + 1,
          store |-> (KeyOf(obj) :> SetResourceVersion(obj, rev + 1)) @@ store]

\* The watches set up for the types of gvkList deliver the changed child.
Watched(obj) ==
    \E gvk \in gvkList : obj["apiVersion"] = APIVersionOf(gvk) /\ obj["kind"] = gvk.kind

Notify(evs, obj) == IF Watched(obj) THEN evs \cup {obj} ELSE evs

\* The event of an update carries the record before and after the write, and the
\* handler built by EnqueueRequestsFromMapFunc (line 166) maps both.
NotifyUpdate(evs, old, new) == Notify(Notify(evs, old), new)

(***************************************************************************)
(* The ownership router.                                                   *)
(***************************************************************************)
\* dynamicHandler, were the kind of the controlling owner not compared.
dynamicHandlerAnyKind(obj) ==
    LET ownerRef == GetControllerOf(obj) IN
    IF ownerRef # <<>>
    THEN << [name |-> ownerRef[1].name, namespace |-> GetNamespace(obj)] >>
    ELSE <<>>

dynamicHandler(obj) ==
    LET ownerRef == GetControllerOf(obj) IN
    IF ownerRef # <<>> /\ ownerRef[1].kind = "ResourceCreator"
    THEN << [name |-> ownerRef[1].name, namespace |-> GetNamespace(obj)] >>
    ELSE <<>>

(***************************************************************************)
(* Reconcile, lines 68-106: the child built from one descriptor.           *)
(***************************************************************************)
\* Materialize, were the child put in the namespace "default" instead of the
\* namespace of the request.
MaterializeDefaultNamespace(resourceSpec, request, owner, internalSpec) ==
    LET spec == ("spec" :> internalSpec)
        r1 == SetUnstructuredContent(EmptyMap, spec)
        r2 == SetGroupVersionKind(r1, [group |-> resourceSpec.group,
                                       version |-> resourceSpec.version,
                                       kind |-> resourceSpec.kind])
        r3 == SetName(r2, resourceSpec.name)
        r4 == SetNamespace(r3, "default")
        ownerRefs == << NewControllerRef(owner.name,
                          [group |-> GroupVersion.group,
                           version |-> GroupVersion.version,
                           kind |-> "ResourceCreator"]) >>
    IN SetOwnerReferences(r4, ownerRefs)

\* Materialize, were the deserialized payload made the content of the child as
\* it is, not wrapped under "spec".
MaterializeFlat(resourceSpec, request, owner, internalSpec) ==
    LET r1 == SetUnstructuredContent(EmptyMap, internalSpec)
        r2 == SetGroupVersionKind(r1, [group |-> resourceSpec.group,
                                       version |-> resourceSpec.version,
                                       kind |-> resourceSpec.kind])
        r3 == SetName(r2, resourceSpec.name)
        r4 == SetNamespace(r3, request.namespace)
        ownerRefs == << NewControllerRef(owner.name,
                          [group |-> GroupVersion.group,
                           version |-> GroupVersion.version,
                           kind |-> "ResourceCreator"]) >>
    IN SetOwnerReferences(r4, ownerRefs)

Materialize(resourceSpec, request, owner, internalSpec) ==
    LET spec == ("spec" :> internalSpec)
        r1 == SetUnstructuredContent(EmptyMap, spec)
        r2 == SetGroupVersionKind(r1, [group |-> resourceSpec.group,
                                       version |-> resourceSpec.version,
                                       kind |-> resourceSpec.kind])
        r3 == SetName(r2, resourceSpec.name)
        r4 == SetNamespace(r3, request.namespace)
        ownerRefs == << NewControllerRef(owner.name,
                          [group |-> GroupVersion.group,
                           version |-> GroupVersion.version,
                           kind |-> "ResourceCreator"]) >>
    IN SetOwnerReferences(r4, ownerRefs)

\* ApplyBranch, were the child updated whatever the fetch said.
ApplyBranchUpdate(err) == "update"

\* ApplyBranch, were the child created whatever the fetch said.
ApplyBranchCreate(err) == "create"

\* Line 114: create when the fetch said not-found, update otherwise.
ApplyBranch(err) ==
    IF err # "nil" /\ IgnoreNotFound(err) = "nil" THEN "create" ELSE "update"

(***************************************************************************)
(* Histories.                                                              *)
(***************************************************************************)
NoRequest == [namespace |-> "", name |-> ""]
NoParent == [name |-> "", namespace |-> "", resources |-> <<>>, status |-> ZeroStatus]

\* call: what the call in flight has seen and done so far.
\*   parent      "present", "absent" or "error": the outcome of the parent fetch
\*   desired     the descriptors of the fetched parent
\*   ops         the child store calls issued, in order
\*   badAt       position of the descriptor whose payload failed to deserialize
\*   disturbed   the external actor wrote since the previous call started
\*   interfered  the external actor wrote while this call was running
\*   cancelledAt the number of child store calls issued when the cancellation
\*               signal of the call was raised, -1 when it was not raised
IdleCall ==
    [req |-> NoRequest, parent |-> "", desired |-> <<>>, ops |-> <<>>,
     badAt |-> 0, disturbed |-> FALSE, interfered |-> FALSE, cancelledAt |-> -1]

\* done: the call as it returned, with its error, whether the result asked for a
\* requeue, whether the driver requeued the request, and the children and the
\* parent's status as the call left them.
NoCall ==
    [req |-> NoRequest, parent |-> "", desired |-> <<>>, ops |-> <<>>,
     badAt |-> 0, disturbed |-> FALSE, interfered |-> FALSE, cancelledAt |-> -1,
     err |-> "", requeue |-> FALSE, requeued |-> FALSE,
     children |-> EmptyMap, status |-> ZeroStatus]

NoPrev == [req |-> NoRequest, err |-> "", children |-> EmptyMap]

\* One store call on a child: for the descriptor at position i, with the child
\* that was materialized for it and the stored record after the call.
Op(i, op, key, err, want, after) ==
    [i |-> i, op |-> op, key |-> key, err |-> err, want |-> want, after |-> after]

Stored(store, key) == IF key \in DOMAIN store THEN store[key] ELSE EmptyMap

(***************************************************************************)
(* The external actor.                                                     *)
(***************************************************************************)
ParentRef ==
    NewControllerRef("demo", [group |-> GroupVersion.group,
                              version |-> GroupVersion.version,
                              kind |-> ParentKind])

ReplicaSetRef ==
    [apiVersion |-> "apps/v1", kind |-> "ReplicaSet", name |-> "demo",
     controller |-> TRUE, blockOwnerDeletion |-> TRUE]

ExternalChild(gvk, namespace, refs) ==
    SetOwnerReferences(
        SetNamespace(
            SetName(SetGroupVersionKind(("spec" :> ("replicas" :> 5)), gvk), "web"),
            namespace),
        refs)

\* The records another writer puts in the store, with its own content: a child
\* with no owner, a child owned by the parent, a child of a type that is not
\* watched, and a child in the other namespace controlled by another kind.
ExternalChildren ==
    { ExternalChild(DeploymentGVK, "ns1", <<>>),
      ExternalChild(DeploymentGVK, "ns1", <<ParentRef>>),
      ExternalChild(ConfigMapGVK, "ns1", <<ParentRef>>),
      ExternalChild(DeploymentGVK, "ns2", <<ReplicaSetRef>>) }

\* The store the controller starts on: empty, or holding a parent (which the
\* initial listing of the parent type enqueues), possibly beside a child that
\* another writer put at the place of one of its descriptors.
Demo == [namespace |-> "ns1", name |-> "demo"]

InitialStores ==
    { [parents |-> EmptyMap, children |-> EmptyMap],
      [parents |-> (Demo :> [resources |-> << ResourceSpec(DeploymentGVK, "web", RawReplicas2) >>,
                             status |-> ZeroStatus]),
       children |-> EmptyMap],
      [parents |-> (Demo :> [resources |-> << ResourceSpec(DeploymentGVK, "web", RawReplicas2),
                                              ResourceSpec(ConfigMapGVK, "web", RawNull) >>,
                             status |-> ZeroStatus]),
       children |-> EmptyMap],
      [parents |-> (Demo :> [resources |-> << ResourceSpec(DeploymentGVK, "web", RawReplicas2) >>,
                             status |-> ZeroStatus]),
       children |-> LET obj == SetResourceVersion(
                                   ExternalChild(DeploymentGVK, "ns1", <<>>), 1)
                    IN (KeyOf(obj) :> obj)] }

Init ==
    /\ \E s \in InitialStores :
          /\ parents = s.parents
          /\ children = s.children
          /\ revision = Cardinality(DOMAIN s.children)
          /\ queue = DOMAIN s.parents
    /\ events = {}
    /\ pc = "idle"
    /\ req = NoRequest
    /\ resourceCreator = NoParent
    /\ idx = 0
    /\ resource = EmptyMap
    /\ ctx = Background
    /\ call = IdleCall
    /\ done = NoCall
    /\ prev = NoPrev
    /\ nExternal = 0
    /\ nReconciles = 0

\* What every write of the external actor does to the histories.
External ==
    /\ nExternal < MaxExternal
    /\ nExternal' = nExternal + 1
    /\ call' = [call EXCEPT !.disturbed = TRUE,
                            !.interfered = (@ \/ pc # "idle")]
    /\ UNCHANGED <<pc, req, resourceCreator, idx, resource, ctx, done, prev,
                   nReconciles>>

\* A parent is created, or its desired state replaced; the watch on the parent
\* type enqueues it.
ExternalApplyParent ==
    \E w \in ParentWrites :
      LET r == w[1]
          desired == w[2]
      IN
        /\ External
        /\ r \in DOMAIN parents => parents[r].resources # desired
        /\ parents' = (r :> [resources |-> desired,
                             status |-> IF r \in DOMAIN parents
                                        THEN parents[r].status ELSE ZeroStatus])
                      @@ parents
        /\ queue' = queue \cup {r}
        /\ UNCHANGED <<children, revision, events>>

ExternalDeleteParent ==
    \E r \in DOMAIN parents :
        /\ External
        /\ parents' = [x \in DOMAIN parents \ {r} |-> parents[x]]
        /\ queue' = queue \cup {r}
        /\ UNCHANGED <<children, revision, events>>

ExternalApplyChild ==
    \E obj \in ExternalChildren :
        /\ External
        /\ KeyOf(obj) \in DOMAIN children =>
              SetResourceVersion(children[KeyOf(obj)], 0) # obj
        /\ children' = (KeyOf(obj) :> SetResourceVersion(obj, revision + 1)) @@ children
        /\ revision' = revision + 1
        /\ events' = IF KeyOf(obj) \in DOMAIN children
                     THEN NotifyUpdate(events, children[KeyOf(obj)],
                                       SetResourceVersion(obj, revision + 1))
                     ELSE Notify(events, SetResourceVersion(obj, revision + 1))
        /\ UNCHANGED <<parents, queue>>

ExternalDeleteChild ==
    \E key \in DOMAIN children :
        /\ External
        /\ children' = [x \in DOMAIN children \ {key} |-> children[x]]
        /\ revision' = revision + 1
        /\ events' = Notify(events, children[key])
        /\ UNCHANGED <<parents, queue>>

(***************************************************************************)
(* The watch multiplexer hands a child event to the router and enqueues    *)
(* what it returns.                                                        *)
(***************************************************************************)
RECURSIVE Range(_)
Range(s) == IF s = <<>> THEN {} ELSE {Head(s)} \cup Range(Tail(s))

RouteEvent ==
    \E obj \in events :
        /\ events' = events \ {obj}
        /\ queue' = queue \cup Range(dynamicHandler(obj))
        /\ UNCHANGED <<parents, children, revision, pc, req, resourceCreator, idx,
                       resource, ctx, call, done, prev, nExternal, nReconciles>>

(***************************************************************************)
(* Reconcile.  A step is one store call together with the local            *)
(* computation that leads to it and, when the call fails, the return that  *)
(* follows it; the return after the loop is a step of its own.             *)
(***************************************************************************)
\* return ctrl.Result{}, err: the queue driver requeues the request on an error
\* or when the result asks for it.
Return(c, err, q, store) ==
    /\ pc' = "idle"
    /\ done' = [req |-> c.req, parent |-> c.parent, desired |-> c.desired,
                ops |-> c.ops, badAt |-> c.badAt,
                disturbed |-> c.disturbed, interfered |-> c.interfered,
                cancelledAt |-> c.cancelledAt,
                err |-> err, requeue |-> FALSE, requeued |-> (err # "nil"),
                children |-> store,
                status |-> IF c.req \in DOMAIN parents
                           THEN parents[c.req].status ELSE ZeroStatus]
    /\ prev' = IF c.disturbed THEN NoPrev
               ELSE [req |-> done.req, err |-> done.err, children |-> done.children]
    /\ call' = [IdleCall EXCEPT !.disturbed = c.interfered]
    /\ queue' = IF err # "nil" THEN q \cup {c.req} ELSE q
    /\ req' = NoRequest
    /\ resourceCreator' = NoParent
    /\ idx' = 0
    /\ resource' = EmptyMap
    /\ ctx' = Background

\* ParentFetchError, were not-found returned like any other error.
ParentFetchErrorRaw(err) == err

\* ParentFetchError, were every error of the parent fetch dropped.
ParentFetchErrorNone(err) == "nil"

\* Line 65: the result of a failed parent fetch.
ParentFetchError(err) == IgnoreNotFound(err)

\* AfterLoop, were the children that the parent owns and no longer describes
\* deleted once the loop is over.
AfterLoopPrune(store, rc) ==
    LET keep == { k \in DOMAIN store :
                    \/ \E i \in 1..Len(rc.resources) :
                          k = << APIVersionOf([group |-> rc.resources[i].group,
                                               version |-> rc.resources[i].version]),
                                 rc.resources[i].kind, rc.namespace,
                                 rc.resources[i].name >>
                    \/ GetControllerOf(store[k]) = <<>>
                    \/ GetControllerOf(store[k])[1].name # rc.name }
    IN [k \in keep |-> store[k]]

\* Lines 130-132: once the loop is over the call returns; the store is left as
\* the loop left it.
AfterLoop(store, rc) == store

\* Line 68: the loop goes on with the descriptor at position i, or is over.
Advance(c, r, rc, i, q, store) ==
    /\ pc' = IF i > Len(rc.resources) THEN "return" ELSE "loop"
    /\ req' = r
    /\ resourceCreator' = rc
    /\ idx' = i
    /\ call' = c
    /\ queue' = q
    /\ children' = store
    /\ UNCHANGED <<resource, ctx, done, prev>>

\* Lines 56-66: a worker takes a request off the queue and fetches the parent.
ReconcileGetParent ==
    \E r \in queue, fault \in BOOLEAN :
        LET err == IF CallError(ctx, fault) # "nil" THEN CallError(ctx, fault)
                   ELSE IF r \in DOMAIN parents THEN "nil" ELSE "NotFound"
            c == [call EXCEPT !.req = r,
                              !.parent = IF fault THEN "error"
                                         ELSE IF err = "nil" THEN "present"
                                         ELSE "absent",
                              !.desired = IF err = "nil" THEN parents[r].resources
                                          ELSE <<>>,
                              !.interfered = FALSE]
        IN  /\ pc = "idle"
            /\ nReconciles < MaxReconciles
            /\ nReconciles' = nReconciles + 1
            /\ IF err # "nil"
               THEN /\ Return(c, ParentFetchError(err), queue \ {r}, children)
                    /\ UNCHANGED children
               ELSE Advance(c, r,
                            [name |-> r.name, namespace |-> r.namespace,
                             resources |-> parents[r].resources,
                             status |-> parents[r].status],
                            1, queue \ {r}, children)
            /\ UNCHANGED <<parents, revision, events, nExternal>>

\* Lines 68-112: the descriptor is deserialized and materialized, and the
\* existing child is fetched into the materialized object.
ReconcileGetChild ==
    \E fault \in BOOLEAN :
        LET resourceSpec == resourceCreator.resources[idx]
            u == Unmarshal(resourceSpec.spec)
            want == Materialize(resourceSpec, req, resourceCreator, u.val)
            key == ObjectKey(want, req.namespace, resourceSpec.name)
            got == ClientGet(ctx, children, key, want, fault)
            c == [call EXCEPT !.ops = Append(@, Op(idx, "get", key, got.err,
                                                   want, Stored(children, key)))]
        IN  /\ pc = "loop"
            /\ IF u.err # "nil"
               THEN /\ ~fault
                    /\ Return([call EXCEPT !.badAt = idx], u.err, queue, children)
               ELSE IF got.err # "nil" /\ IgnoreNotFound(got.err) # "nil"
               THEN Return(c, got.err, queue, children)
               ELSE /\ resource' = got.obj
                    /\ pc' = ApplyBranch(got.err)
                    /\ call' = c
                    /\ UNCHANGED <<req, resourceCreator, idx, ctx, done, prev, queue>>
            /\ UNCHANGED <<parents, children, revision, events, nExternal, nReconciles>>

\* The child materialized for the descriptor being applied.
Want(c) == c.ops[Len(c.ops)].want

\* ReconcileCreate, were the create issued with a context of its own instead of
\* the context of the call.
ReconcileCreateBackground ==
    \E fault \in BOOLEAN :
        LET obj == SetResourceVersion(resource, 0)
            res == ClientCreate(Background, children, revision, obj, fault)
            c == [call EXCEPT !.ops = Append(@, Op(idx, "create", KeyOf(obj), res.err,
                                                   Want(call),
                                                   Stored(res.store, KeyOf(obj))))]
        IN  /\ pc = "create"
            /\ revision' = res.rev
            /\ events' = IF res.store # children
                         THEN Notify(events, res.store[KeyOf(obj)]) ELSE events
            /\ IF res.err # "nil"
               THEN /\ Return(c, res.err, queue, res.store)
                    /\ children' = res.store
               ELSE Advance(c, req, resourceCreator, idx + 1, queue, res.store)
            /\ UNCHANGED <<parents, nExternal, nReconciles>>

\* Lines 114-121: the child was not found and is created.
ReconcileCreate ==
    \E fault \in BOOLEAN :
        LET obj == SetResourceVersion(resource, 0)
            res == ClientCreate(ctx, children, revision, obj, fault)
            c == [call EXCEPT !.ops = Append(@, Op(idx, "create", KeyOf(obj), res.err,
                                                   Want(call),
                                                   Stored(res.store, KeyOf(obj))))]
        IN  /\ pc = "create"
            /\ revision' = res.rev
            /\ events' = IF res.store # children
                         THEN Notify(events, res.store[KeyOf(obj)]) ELSE events
            /\ IF res.err # "nil"
               THEN /\ Return(c, res.err, queue, res.store)
                    /\ children' = res.store
               ELSE Advance(c, req, resourceCreator, idx + 1, queue, res.store)
            /\ UNCHANGED <<parents, nExternal, nReconciles>>

\* ReconcileUpdate, were the loop to go on after a failed update.
ReconcileUpdateSwallow ==
    \E fault \in BOOLEAN :
        LET res == ClientUpdate(ctx, children, revision, resource, fault)
            c == [call EXCEPT !.ops = Append(@, Op(idx, "update", KeyOf(resource),
                                                   res.err, Want(call),
                                                   Stored(res.store, KeyOf(resource))))]
        IN  /\ pc = "update"
            /\ revision' = res.rev
            /\ events' = IF res.store # children
                         THEN NotifyUpdate(events, children[KeyOf(resource)],
                                           res.store[KeyOf(resource)])
                         ELSE events
            /\ Advance(c, req, resourceCreator, idx + 1, queue, res.store)
            /\ UNCHANGED <<parents, nExternal, nReconciles>>

\* ReconcileUpdate, were the resource version of the fetched child cleared before
\* the update, as line 115 clears it before the create.
ReconcileUpdateUnversioned ==
    \E fault \in BOOLEAN :
        LET obj == SetResourceVersion(resource, 0)
            res == ClientUpdate(ctx, children, revision, obj, fault)
            c == [call EXCEPT !.ops = Append(@, Op(idx, "update", KeyOf(obj),
                                                   res.err, Want(call),
                                                   Stored(res.store, KeyOf(obj))))]
        IN  /\ pc = "update"
            /\ revision' = res.rev
            /\ events' = IF res.store # children
                         THEN NotifyUpdate(events, children[KeyOf(obj)],
                                           res.store[KeyOf(obj)])
                         ELSE events
            /\ IF res.err # "nil"
               THEN /\ Return(c, res.err, queue, res.store)
                    /\ children' = res.store
               ELSE Advance(c, req, resourceCreator, idx + 1, queue, res.store)
            /\ UNCHANGED <<parents, nExternal, nReconciles>>

\* Lines 122-129: the child was found and is updated.
ReconcileUpdate ==
    \E fault \in BOOLEAN :
        LET res == ClientUpdate(ctx, children, revision, resource, fault)
            c == [call EXCEPT !.ops = Append(@, Op(idx, "update", KeyOf(resource),
                                                   res.err, Want(call),
                                                   Stored(res.store, KeyOf(resource))))]
        IN  /\ pc = "update"
            /\ revision' = res.rev
            /\ events' = IF res.store # children
                         THEN NotifyUpdate(events, children[KeyOf(resource)],
                                           res.store[KeyOf(resource)])
                         ELSE events
            /\ IF res.err # "nil"
               THEN /\ Return(c, res.err, queue, res.store)
                    /\ children' = res.store
               ELSE Advance(c, req, resourceCreator, idx + 1, queue, res.store)
            /\ UNCHANGED <<parents, nExternal, nReconciles>>

\* Lines 130-132: the loop is over and the call returns success; no context is
\* consulted on the way.
ReconcileReturn ==
    /\ pc = "return"
    /\ Return(call, "nil", queue, AfterLoop(children, resourceCreator))
    /\ children' = AfterLoop(children, resourceCreator)
    /\ UNCHANGED <<parents, revision, events, nExternal, nReconciles>>

Next ==
    \/ ExternalApplyParent
    \/ ExternalDeleteParent
    \/ ExternalApplyChild
    \/ ExternalDeleteChild
    \/ RouteEvent
    \/ ReconcileGetParent
    \/ ReconcileGetChild
    \/ ReconcileCreate
    \/ ReconcileUpdate
    \/ ReconcileReturn

Spec == Init /\ [][Next]_vars

(***************************************************************************)
(* Cancellation: the cancellation signal of the context of the call in     *)
(* flight is raised, at any point between two steps of the call.  The      *)
(* calls run on the initial stores, with no other writer.                  *)
(***************************************************************************)
Cancel ==
    /\ pc # "idle"
    /\ ~ctx.cancelled
    /\ ctx' = [cancelled |-> TRUE]
    /\ call' = [call EXCEPT !.cancelledAt = Len(call.ops)]
    /\ UNCHANGED <<parents, children, revision, queue, events, pc, req,
                   resourceCreator, idx, resource, done, prev, nExternal, nReconciles>>

NextCancel ==
    \/ RouteEvent
    \/ ReconcileGetParent
    \/ ReconcileGetChild
    \/ ReconcileCreate
    \/ ReconcileUpdate
    \/ ReconcileReturn
    \/ Cancel

SpecCancel == Init /\ [][NextCancel]_vars

(***************************************************************************)
(* The materializer at work: Reconcile of a parent with one descriptor of  *)
(* any type, name and payload, in either namespace, on a store that holds  *)
(* no child or a child of another writer, with no other writer at work.    *)
(***************************************************************************)
ChildNames == {"web", "db"}

MaterializeInputs ==
    { ResourceSpec(gvk, name, raw) :
        gvk \in {DeploymentGVK, ConfigMapGVK}, name \in ChildNames,
        raw \in {RawReplicas2, RawRepeated, RawNull, RawKeys} }

InitMaterialize ==
    /\ \E r \in Requests, d \in MaterializeInputs :
          /\ parents = (r :> [resources |-> <<d>>, status |-> ZeroStatus])
          /\ queue = {r}
    /\ \E s \in InitialStores :
          /\ children = s.children
          /\ revision = Cardinality(DOMAIN s.children)
    /\ events = {}
    /\ pc = "idle"
    /\ req = NoRequest
    /\ resourceCreator = NoParent
    /\ idx = 0
    /\ resource = EmptyMap
    /\ ctx = Background
    /\ call = IdleCall
    /\ done = NoCall
    /\ prev = NoPrev
    /\ nExternal = 0
    /\ nReconciles = 0

NextMaterialize ==
    \/ RouteEvent
    \/ ReconcileGetParent
    \/ ReconcileGetChild
    \/ ReconcileCreate
    \/ ReconcileUpdate
    \/ ReconcileReturn

SpecMaterialize == InitMaterialize /\ [][NextMaterialize]_vars

(***************************************************************************)
(* The controller left to itself: a parent and the children of the initial *)
(* stores, and no write of another writer from then on.  The workers keep  *)
(* taking requests off the queue and run every call to its end, and the    *)
(* watch multiplexer keeps routing events.                                 *)
(***************************************************************************)
InitLive ==
    /\ \E w \in ParentWrites :
          /\ parents = (w[1] :> [resources |-> w[2], status |-> ZeroStatus])
          /\ queue = {w[1]}
    /\ \E s \in InitialStores :
          /\ children = s.children
          /\ revision = Cardinality(DOMAIN s.children)
    /\ events = {}
    /\ pc = "idle"
    /\ req = NoRequest
    /\ resourceCreator = NoParent
    /\ idx = 0
    /\ resource = EmptyMap
    /\ ctx = Background
    /\ call = IdleCall
    /\ done = NoCall
    /\ prev = NoPrev
    /\ nExternal = 0
    /\ nReconciles = 0

\* The histories keep the last MaxReconciles calls; older calls are forgotten,
\* so that the number of calls of a run is not bounded.
ForgetHistory ==
    /\ pc = "idle"
    /\ nReconciles = MaxReconciles
    /\ nReconciles' = 0
    /\ call' = IdleCall
    /\ done' = NoCall
    /\ prev' = NoPrev
    /\ UNCHANGED <<parents, children, revision, queue, events, pc, req,
                   resourceCreator, idx, resource, ctx, nExternal>>

NextLive ==
    \/ RouteEvent
    \/ ReconcileGetParent
    \/ ReconcileGetChild
    \/ ReconcileCreate
    \/ ReconcileUpdate
    \/ ReconcileReturn
    \/ ForgetHistory

SpecLive ==
    /\ InitLive
    /\ [][NextLive]_vars
    /\ WF_vars(RouteEvent)
    /\ WF_vars(ReconcileGetParent)
    /\ WF_vars(ReconcileGetChild)
    /\ WF_vars(ReconcileCreate)
    /\ WF_vars(ReconcileUpdate)
    /\ WF_vars(ReconcileReturn)
    /\ WF_vars(ForgetHistory)

(***************************************************************************)
(* The router on its own: one change event of any child the store admits   *)
(* (at most one owner reference is a controller), of a watched type.       *)
(***************************************************************************)
MaxRefs == 2

PodGVK == [group |-> "", version |-> "v1", kind |-> "Pod"]

OwnerRefs ==
    [apiVersion : {"v1"}, kind : {"ResourceCreator", "ReplicaSet"},
     name : {"demo", "other"}, controller : BOOLEAN, blockOwnerDeletion : {TRUE}]

RECURSIVE RefLists(_)
RefLists(n) ==
    IF n = 0 THEN {<<>>}
    ELSE RefLists(n - 1)
         \cup { Append(l, ref) : l \in { x \in RefLists(n - 1) : Len(x) = n - 1 },
                                 ref \in OwnerRefs }

Controllers(refs) == { n \in 1..Len(refs) : refs[n].controller }

RouterInputs ==
    { SetOwnerReferences(
          SetNamespace(SetName(SetGroupVersionKind(EmptyMap, gvk), "web"), ns), refs) :
        gvk \in {DeploymentGVK, PodGVK}, ns \in Namespaces,
        refs \in { l \in RefLists(MaxRefs) : Cardinality(Controllers(l)) <= 1 } }

InitRouter ==
    /\ parents = EmptyMap
    /\ children = EmptyMap
    /\ revision = 0
    /\ queue = {}
    /\ events \in { {obj} : obj \in RouterInputs }
    /\ pc = "idle"
    /\ req = NoRequest
    /\ resourceCreator = NoParent
    /\ idx = 0
    /\ resource = EmptyMap
    /\ ctx = Background
    /\ call = IdleCall
    /\ done = NoCall
    /\ prev = NoPrev
    /\ nExternal = 0
    /\ nReconciles = 0

NextRouter == RouteEvent

SpecRouter == InitRouter /\ [][NextRouter]_vars

(***************************************************************************)
(* Properties.                                                             *)
(***************************************************************************)
\* The place in the store of the child of a descriptor of a parent in namespace ns.
DescriptorKey(d, ns) ==
    <<APIVersionOf([group |-> d.group, version |-> d.version]), d.kind, ns, d.name>>

DesiredKeys(desired, ns) ==
    { DescriptorKey(desired[i], ns) : i \in 1..Len(desired) }

\* A payload that is no JSON object (and not null, which leaves the mapping empty).
BadPayload(raw) == raw.type \notin {"object", "null"}

\* obj is controlled by the parent of request r.
OwnedBy(obj, r) ==
    /\ Len(GetOwnerReferences(obj)) = 1
    /\ GetOwnerReferences(obj)[1].controller
    /\ GetOwnerReferences(obj)[1].kind = ParentKind
    /\ GetOwnerReferences(obj)[1].name = r.name

\* obj is the child that descriptor d of the parent of request r describes.
Matches(obj, d, r) ==
    /\ KeyOf(obj) = DescriptorKey(d, r.namespace)
    /\ "spec" \in DOMAIN obj
    /\ obj["spec"] = Unmarshal(d.spec).val
    /\ OwnedBy(obj, r)

\* A store call that failed (a fetch that found nothing did not).
Failed(op) ==
    IF op.op = "get" THEN op.err \notin {"nil", "NotFound"} ELSE op.err # "nil"

\* The calls whose store operations are on record: the one in flight and the last
\* one that returned.
Calls == {[req |-> call.req, desired |-> call.desired, ops |-> call.ops],
          [req |-> done.req, desired |-> done.desired, ops |-> done.ops]}

\* C1: a successful update of an existing child leaves the stored child with
\* the descriptor's deserialized payload as its spec and with the parent as its
\* owner, whatever the stored child held before.
C1_UpdateOverwrites ==
    \A c \in Calls : \A n \in 1..Len(c.ops) :
        (c.ops[n].op = "update" /\ c.ops[n].err = "nil")
            => Matches(c.ops[n].after, c.desired[c.ops[n].i], c.req)

\* C2: a Reconcile call that returns success, with no other writer at work during
\* the call, leaves one child per descriptor, each with the type, name and
\* configuration of its descriptor and owned by the parent.
C2_SuccessLeavesDesiredChildren ==
    (done.parent = "present" /\ done.err = "nil" /\ ~done.interfered)
        => /\ \A i \in 1..Len(done.desired) :
                LET key == DescriptorKey(done.desired[i], done.req.namespace) IN
                /\ key \in DOMAIN done.children
                /\ Matches(done.children[key], done.desired[i], done.req)
           /\ Cardinality(DesiredKeys(done.desired, done.req.namespace)
                            \cap DOMAIN done.children) = Len(done.desired)

\* C3: when a Reconcile call that fetched the parent has returned, the parent's
\* status carries an apply-status tag of created, updated or error, and the
\* error tag when a payload failed to deserialize.
C3_StatusWritten ==
    done.parent = "present"
        => /\ done.status.status \in {"created", "updated", "error"}
           /\ done.badAt > 0 => done.status.status = "error"

\* C4: when a Reconcile of a parent returned success and the next Reconcile of
\* the same parent runs with no write of another writer since the first one
\* started and no store fault, it returns no error, issues no create, and leaves the children as
\* the first call left them.
C4_Idempotent ==
    ( /\ done.parent = "present"
      /\ prev.req = done.req
      /\ prev.err = "nil"
      /\ ~done.disturbed
      /\ \A n \in 1..Len(done.ops) : done.ops[n].err # "Unavailable" )
        => /\ done.err = "nil"
           /\ \A n \in 1..Len(done.ops) : done.ops[n].op # "create"
           /\ done.children = prev.children

C4_Witness ==
    /\ done.parent = "present"
    /\ prev.req = done.req
    /\ prev.err = "nil"
    /\ ~done.disturbed
    /\ done.err = "nil"
    /\ Len(done.ops) = 2 * Len(done.desired)
    /\ done.ops[2].op = "update"
    /\ DOMAIN done.children = DesiredKeys(done.desired, done.req.namespace)

C6_FailFast ==
    \A i \in 1..Len(done.desired) :
        BadPayload(done.desired[i].spec)
            => /\ done.err # "nil"
               /\ \A n \in 1..Len(done.ops) : done.ops[n].i < i
               /\ ~done.interfered =>
                     \A n \in 1..Len(done.ops) :
                         (done.ops[n].op # "get" /\ done.ops[n].err = "nil")
                             => Stored(done.children, done.ops[n].key) = done.ops[n].after

C6_Witness ==
    /\ done.badAt = 2
    /\ BadPayload(done.desired[2].spec)
    /\ ~done.interfered
    /\ Len(done.ops) = 2
    /\ done.ops[2].op = "create"
    /\ done.ops[2].err = "nil"
    /\ done.ops[2].key \in DOMAIN done.children

\* Every descriptor of the call was deserialized, fetched and created or updated
\* without error.
AllApplied(c) ==
    \A i \in 1..Len(c.desired) :
        /\ ~BadPayload(c.desired[i].spec)
        /\ \E n \in 1..Len(c.ops) :
              c.ops[n].i = i /\ c.ops[n].op = "get" /\ ~Failed(c.ops[n])
        /\ \E n \in 1..Len(c.ops) :
              c.ops[n].i = i /\ c.ops[n].op # "get" /\ ~Failed(c.ops[n])

\* C7: a call that fetched the parent returns success exactly when every
\* descriptor was applied without error; a failed store call is the last store
\* call of its Reconcile and its error is the error returned.
C7_FirstErrorReturned ==
    done.parent = "present"
        => /\ done.err = "nil" <=> AllApplied(done)
           /\ \A n \in 1..Len(done.ops) :
                 Failed(done.ops[n]) => (n = Len(done.ops) /\ done.err = done.ops[n].err)

C7_Witness ==
    /\ done.parent = "present"
    /\ Len(done.desired) = 2
    /\ Len(done.ops) = 2
    /\ done.ops[2].op = "update"
    /\ Failed(done.ops[2])
    /\ done.err = done.ops[2].err

\* C8: a call that found the parent absent returns success, asks for no
\* requeue, is not requeued, and has issued no store call on a child.
C8_AbsentParentNoop ==
    done.parent = "absent"
        => /\ done.err = "nil"
           /\ ~done.requeue
           /\ ~done.requeued
           /\ done.ops = <<>>

C8_Witness ==
    /\ done.parent = "absent"
    /\ done.req = Demo
    /\ done.err = "nil"
    /\ Demo \notin queue
    /\ pc = "idle"

\* C9: a call whose parent fetch failed for another reason than not-found
\* returns that failure, is requeued, and has issued no store call on a child.
C9_ParentFetchFailure ==
    done.parent = "error"
        => /\ done.err = "Unavailable"
           /\ done.requeued
           /\ done.ops = <<>>

C9_Witness ==
    /\ done.parent = "error"
    /\ done.err = "Unavailable"
    /\ done.req = Demo
    /\ Demo \in queue
    /\ Demo \in DOMAIN parents
    /\ pc = "idle"

\* The requests the claim expects for a changed child: one, named after the
\* controlling owner and in the child's namespace, when a controlling owner
\* reference has the parent kind; none otherwise.
ExpectedRequests(obj) ==
    { [name |-> GetOwnerReferences(obj)[n].name, namespace |-> GetNamespace(obj)] :
        n \in { m \in 1..Len(GetOwnerReferences(obj)) :
                  /\ GetOwnerReferences(obj)[m].controller
                  /\ GetOwnerReferences(obj)[m].kind = ParentKind } }

\* C10: routing a change event of a child enqueues exactly the request named
\* after the child's controlling owner in the child's own namespace when that
\* owner has the parent kind, and enqueues nothing otherwise.
C10_Router ==
    [][\E obj \in events :
          /\ events' = events \ {obj}
          /\ queue' = queue \cup ExpectedRequests(obj)
          /\ Cardinality(ExpectedRequests(obj)) <= 1]_vars

C10_Witness ==
    /\ events = {}
    /\ queue = {[namespace |-> "ns2", name |-> "other"]}

\* C11: whenever a child that a Reconcile created is modified or deleted in the
\* store while no Reconcile is running, whatever the child's type, a request for
\* the parent of that Reconcile is in the work queue or a change event that the
\* router maps to that parent is pending.
C11_ChildChangeRequeues ==
    [][\A c \in Calls : \A n \in 1..Len(c.ops) :
          ( /\ pc = "idle"
            /\ c.ops[n].op = "create"
            /\ c.ops[n].err = "nil"
            /\ Stored(children, c.ops[n].key) = c.ops[n].after
            /\ Stored(children', c.ops[n].key) # c.ops[n].after )
              => \/ c.req \in queue'
                 \/ \E obj \in events' : c.req \in Range(dynamicHandler(obj))]_vars

\* The fetch that precedes the create or update the call in flight is about to issue.
LastGet == call.ops[Len(call.ops)]

\* C12: when the child another writer created or modified since the call in
\* flight fetched it is in the store, the create or update of the call is
\* rejected, the call returns that error and is requeued, and the store keeps
\* the other writer's record.
C12_NoClobber ==
    [][( /\ pc \in {"create", "update"}
         /\ pc' # pc
         /\ LastGet.key \in DOMAIN children
         /\ children[LastGet.key] # LastGet.after )
          => /\ children' = children
             /\ pc' = "idle"
             /\ done'.err \in {"AlreadyExists", "Conflict", "Unavailable"}
             /\ done'.ops[Len(done'.ops)].err = done'.err
             /\ done'.requeued
             /\ done'.req \in queue']_vars

\* An update was rejected for its stale resource version and the record of the
\* other writer is in the store.
C12_Witness ==
    /\ pc = "idle"
    /\ done.interfered
    /\ done.err = "Conflict"
    /\ done.ops[Len(done.ops)].op = "update"
    /\ done.ops[Len(done.ops)].key \in DOMAIN children
    /\ children[done.ops[Len(done.ops)].key] \in
          { SetResourceVersion(obj, revision) : obj \in ExternalChildren }

\* The children the call wrote before its cancellation signal was raised are in
\* the store as written when it returns, and no store call issued after the
\* signal succeeded.
CancelledCallStops(c) ==
    /\ \A n \in 1..Len(c.ops) : n > c.cancelledAt => c.ops[n].err = "Canceled"
    /\ ~c.interfered =>
          \A n \in 1..Len(c.ops) :
              (n <= c.cancelledAt /\ c.ops[n].op # "get" /\ c.ops[n].err = "nil")
                  => Stored(c.children, c.ops[n].key) = c.ops[n].after

\* C13: a call whose cancellation signal was raised performs no further
\* successful store call, returns an error and is requeued, and the children it
\* wrote before the signal are in the store as written.
C13_CancelledCallFails ==
    done.cancelledAt >= 0
        => /\ CancelledCallStops(done)
           /\ done.err # "nil"
           /\ done.requeued

\* C13, amended: a call whose cancellation signal was raised performs no further
\* successful store call and the children it wrote before the signal are in
\* the store as written; it returns an error and is requeued when a descriptor
\* was still to be applied, and returns success when the signal was raised
\* after its last store call.
C13_CancelledCallStopsAtNextStoreCall ==
    done.cancelledAt >= 0
        => /\ CancelledCallStops(done)
           /\ IF AllApplied(done) /\ done.cancelledAt = Len(done.ops)
              THEN done.err = "nil" /\ ~done.requeued
              ELSE /\ done.err \in {"Canceled", "UnmarshalTypeError"}
                   /\ Len(done.ops) > done.cancelledAt => done.err = "Canceled"
                   /\ done.requeued

\* The first child was created, the signal was raised, and the fetch for the
\* second descriptor failed on it.
C13_Witness ==
    /\ pc = "idle"
    /\ done.cancelledAt = 2
    /\ Len(done.ops) = 3
    /\ done.ops[2].op = "create"
    /\ done.ops[2].err = "nil"
    /\ done.ops[3].err = "Canceled"
    /\ done.err = "Canceled"
    /\ done.ops[2].key \in DOMAIN children
    /\ done.req \in queue

\* C14: when a Reconcile call that fetched the parent has returned success, with
\* no other writer at work during the call, no child that the parent owns in
\* its namespace is at a place that none of the parent's descriptors names.
C14_OrphansDeleted ==
    (done.parent = "present" /\ done.err = "nil" /\ ~done.interfered)
        => \A k \in DOMAIN done.children :
              (k[3] = done.req.namespace /\ OwnedBy(done.children[k], done.req))
                  => k \in DesiredKeys(done.desired, done.req.namespace)

\* The mapping a JSON object denotes: every key with the value of its last member.
RECURSIVE LastValue(_, _)
LastValue(members, k) ==
    IF members[Len(members)][1] = k THEN members[Len(members)][2]
    ELSE LastValue(SubSeq(members, 1, Len(members) - 1), k)

PayloadMapping(raw) ==
    [k \in { raw.members[n][1] : n \in 1..Len(raw.members) } |->
        LastValue(raw.members, k)]

\* C15: the record a Reconcile created has the group/version and kind of its
\* descriptor, the descriptor's name, the namespace of the request, the
\* payload's mapping under "spec" and nothing else beside its type and
\* metadata, and one owner reference, which is a controller reference to the
\* parent.
C15_CreatedRecord ==
    \A c \in Calls : \A n \in 1..Len(c.ops) :
        (c.ops[n].op = "create" /\ c.ops[n].err = "nil")
            => LET d == c.desired[c.ops[n].i]
                   obj == c.ops[n].after
               IN  /\ DOMAIN obj = {"apiVersion", "kind", "metadata", "spec"}
                   /\ obj["apiVersion"] =
                         (IF d.group = "" THEN d.version ELSE d.group \o "/" \o d.version)
                   /\ obj["kind"] = d.kind
                   /\ obj["spec"] = PayloadMapping(d.spec)
                   /\ DOMAIN obj["metadata"] =
                         {"name", "namespace", "ownerReferences", "resourceVersion"}
                   /\ obj["metadata"]["name"] = d.name
                   /\ obj["metadata"]["namespace"] = c.req.namespace
                   /\ obj["metadata"]["ownerReferences"] =
                         << [apiVersion |-> "creator.m3.io/v1", kind |-> "ResourceCreator",
                             name |-> c.req.name, controller |-> TRUE,
                             blockOwnerDeletion |-> TRUE] >>

\* A child was created from a payload that has keys named apiVersion, kind and
\* metadata, and is stored with the type of its descriptor.
C15_Witness ==
    /\ pc = "idle"
    /\ done.err = "nil"
    /\ done.desired = << ResourceSpec(ConfigMapGVK, "db", RawKeys) >>
    /\ Len(done.ops) = 2
    /\ done.ops[2].op = "create"
    /\ done.ops[2].key = <<"v1", "ConfigMap", "ns2", "db">>
    /\ done.ops[2].key \in DOMAIN children
    /\ children[done.ops[2].key]["kind"] = "ConfigMap"
    /\ children[done.ops[2].key]["spec"]["kind"] = "Other"

\* C16: for every record a Reconcile created, the router maps the record to
\* exactly one request, which is the request of that Reconcile.
C16_RoundTrip ==
    \A c \in Calls : \A n \in 1..Len(c.ops) :
        (c.ops[n].op = "create" /\ c.ops[n].err = "nil")
            => /\ Len(dynamicHandler(c.ops[n].after)) = 1
               /\ dynamicHandler(c.ops[n].after)[1].namespace = c.req.namespace
               /\ dynamicHandler(c.ops[n].after)[1].name = c.req.name

\* The change event of a child created for the parent in ns2 was routed and put
\* the request of that parent back in the queue.
C16_Witness ==
    /\ pc = "idle"
    /\ done.req = [namespace |-> "ns2", name |-> "demo"]
    /\ done.err = "nil"
    /\ Len(done.ops) = 2
    /\ done.ops[2].op = "create"
    /\ done.ops[2].err = "nil"
    /\ events = {}
    /\ queue = {done.req}

\* The store calls on record were issued on places of descriptors of their call.
OpsOnDesiredKeys(c) ==
    \A n \in 1..Len(c.ops) : c.ops[n].key \in DesiredKeys(c.desired, c.req.namespace)

C18_QueueDrains == <>[](queue = {}) \/ []<>(done.err = "Unavailable")

\* No descriptor of a stored parent has a payload that fails to deserialize.
NoBadPayload ==
    \A r \in DOMAIN parents : \A i \in 1..Len(parents[r].resources) :
        ~BadPayload(parents[r].resources[i].spec)

\* C18, amended: with no write of another writer, and when every payload of
\* the stored parents deserializes, either calls keep failing on faults of the
\* store, or eventually and from then on the work queue is empty, no change
\* event is pending and no Reconcile is running.
C18_QuiescentUnlessBadPayload ==
    NoBadPayload => \/ <>[](queue = {} /\ events = {} /\ pc = "idle")
                    \/ []<>(done.err = "Unavailable")

\* The Reconcile that the event of the parent's own create brought about has
\* updated the child, and nothing is left to do.
C18_Witness ==
    /\ NoBadPayload
    /\ queue = {}
    /\ events = {}
    /\ pc = "idle"
    /\ done.err = "nil"
    /\ prev.req = done.req
    /\ prev.err = "nil"
    /\ Len(done.ops) = 2
    /\ done.ops[2].op = "update"
    /\ done.ops[2].key[2] = "Deployment"
    /\ OwnedBy(children[done.ops[2].key], done.req)

=============================================================================
